---- MODULE Spec2Model ----
(***************************************************************************)
(* AgentApps Studio (src/Steamlit/agentapps_ui.py): the configuration      *)
(* persistence and reconstruction protocol of the Streamlit UI.            *)
(*                                                                         *)
(* State: the Streamlit session state (agents, teams, custom_tools,        *)
(* api_key, editing_agent, initialized), the JSON storage file             *)
(* ~/.agentapps/config.json, the legacy pickle file ~/.agentapps/config.pkl *)
(* and the OPENAI_API_KEY environment variable.                            *)
(*                                                                         *)
(* One action per handler of the script: session initialization, the       *)
(* sidebar credential input, Save All, Create/Update Agent, Cancel         *)
(* Editing, Create Team, Create/Delete Custom Tool, Edit/Delete Agent,     *)
(* Delete Team, Clear All Data, and the end of a session.                  *)
(***************************************************************************)
EXTENDS Integers, Sequences, FiniteSets, TLC

VARIABLES
    initialized,    \* 'initialized' in st.session_state
    agents,         \* st.session_state.agents: list of agent dicts
    teams,          \* st.session_state.teams: list of team dicts
    custom_tools,   \* st.session_state.custom_tools: list of tool dicts
    api_key,        \* st.session_state.api_key
    editing_agent,  \* st.session_state.editing_agent: None or {**agent, 'index'}
    file,           \* STORAGE_FILE.with_suffix('.json') on disk
    legacy,         \* STORAGE_FILE (config.pkl) on disk
    env_key,        \* os.getenv('OPENAI_API_KEY', '')
    last,           \* the handler that ran last and what its save_data() did
    io_failures,    \* number of save_data() calls that hit an I/O error so far
    steps           \* number of script runs so far (bounds the exploration)

vars == <<initialized, agents, teams, custom_tools, api_key, editing_agent,
          file, legacy, env_key, last, io_failures, steps>>

(***************************************************************************)
(* Bounds of the exploration.                                              *)
(***************************************************************************)
MaxSteps == 3
MaxIOFailures == 1
MaxAgents == 3
MaxTeams == 2
MaxCustomTools == 2

(***************************************************************************)
(* Generic sequence helpers.                                               *)
(***************************************************************************)
Range(s) == {s[i] : i \in 1..Len(s)}

RECURSIVE SelectSeqBy(_, _)
\* [x for x in s if x \in keep]
SelectSeqBy(s, keep) ==
    IF s = <<>> THEN <<>>
    ELSE IF Head(s) \in keep THEN <<Head(s)>> \o SelectSeqBy(Tail(s), keep)
    ELSE SelectSeqBy(Tail(s), keep)

\* list.pop(idx) for 0-based idx within range
Pop(s, idx) == [i \in 1..(Len(s) - 1) |-> IF i <= idx THEN s[i] ELSE s[i + 1]]

(***************************************************************************)
(* JSON values, as json.dump writes them and json.load reads them back.    *)
(* Every value carries its JSON type j; an object is the sequence of its   *)
(* <<key, value>> members in document order.  json.load maps object to     *)
(* dict, array to list, string to str, number to int/float, true/false to  *)
(* bool and null to None, so a loaded value is read through the accessors  *)
(* below with Python's semantics.  Temperatures are numbers in tenths.     *)
(***************************************************************************)
JNull == [j |-> "null", s |-> "", n |-> 0, a |-> <<>>, o |-> <<>>]
JStr(v) == [j |-> "string", s |-> v, n |-> 0, a |-> <<>>, o |-> <<>>]
JNum(v) == [j |-> "number", s |-> "", n |-> v, a |-> <<>>, o |-> <<>>]
JBool(v) == [j |-> IF v THEN "true" ELSE "false", s |-> "", n |-> 0, a |-> <<>>, o |-> <<>>]
JArr(v) == [j |-> "array", s |-> "", n |-> 0, a |-> v, o |-> <<>>]
JObj(v) == [j |-> "object", s |-> "", n |-> 0, a |-> <<>>, o |-> v]

JStrList(l) == JArr([i \in 1..Len(l) |-> JStr(l[i])])

\* Python truthiness of a loaded value (`if saved_data:`)
Truthy(v) ==
    CASE v.j = "null" -> FALSE
      [] v.j = "false" -> FALSE
      [] v.j = "true" -> TRUE
      [] v.j = "number" -> v.n # 0
      [] v.j = "string" -> v.s # ""
      [] v.j = "array" -> v.a # <<>>
      [] v.j = "object" -> v.o # <<>>

IsDict(v) == v.j = "object"
\* `k in d` for a dict d
DictHas(d, k) == \E i \in 1..Len(d.o) : d.o[i][1] = k
\* d[k] for a dict d holding k (json.load keeps the last of duplicate keys)
DictGet(d, k) ==
    d.o[CHOOSE i \in 1..Len(d.o) :
            /\ d.o[i][1] = k
            /\ \A m \in (i + 1)..Len(d.o) : d.o[m][1] # k][2]
\* `k in v and v[k] is a str`: the cases of v[k] the handlers read as text
HasStr(v, k) == IsDict(v) /\ DictHas(v, k) /\ DictGet(v, k).j = "string"
\* `k in v and v[k] is a list of str`
HasStrList(v, k) ==
    /\ IsDict(v) /\ DictHas(v, k) /\ DictGet(v, k).j = "array"
    /\ \A i \in 1..Len(DictGet(v, k).a) : DictGet(v, k).a[i].j = "string"
StrOf(v, k) == DictGet(v, k).s
StrListOf(v, k) == [i \in 1..Len(DictGet(v, k).a) |-> DictGet(v, k).a[i].s]

(***************************************************************************)
(* Live objects of the external agentapps library.  A handle is the value  *)
(* of the constructor's arguments: the program never reads a handle back.  *)
(***************************************************************************)
BuiltinNames == <<"Web Search", "Web Scraper", "Calculator">>

BuiltinClass(n) ==
    CASE n = "Web Search" -> "SearchSummaryTool"
      [] n = "Web Scraper" -> "WebScraperTool"
      [] n = "Calculator" -> "CalculatorTool"

BuiltinTool(n) == [name |-> n, cls |-> BuiltinClass(n), code |-> ""]

\* DynamicTool(name, description, param_name, param_type, ..., function_code)
DynamicTool(name, function_code) ==
    [name |-> name, cls |-> "DynamicTool", code |-> function_code]

\* The keys of the available_tools dict, in insertion order: the built-ins,
\* then each custom tool name not seen before.
RECURSIVE CustomKeys(_, _)
CustomKeys(cts, seen) ==
    IF cts = <<>> THEN <<>>
    ELSE IF Head(cts).name \in seen THEN CustomKeys(Tail(cts), seen)
    ELSE <<Head(cts).name>> \o CustomKeys(Tail(cts), seen \cup {Head(cts).name})

AvailableKeys(cts) == BuiltinNames \o CustomKeys(cts, Range(BuiltinNames))

\* A faulty variant of AvailableTool: a built-in is never replaced, and of
\* several custom tools with one name the first registered is kept.
AvailableToolFirstWins(cts, t) ==
    IF t \in Range(BuiltinNames) THEN BuiltinTool(t)
    ELSE cts[CHOOSE i \in 1..Len(cts) :
                 /\ cts[i].name = t
                 /\ \A m \in 1..(i - 1) : cts[m].name # t].tool_obj
\* available_tools[t]: a later assignment to the same key replaces the value
AvailableTool(cts, t) ==
    IF \E i \in 1..Len(cts) : cts[i].name = t
    THEN cts[CHOOSE i \in 1..Len(cts) :
                 /\ cts[i].name = t
                 /\ \A m \in (i + 1)..Len(cts) : cts[m].name # t].tool_obj
    ELSE BuiltinTool(t)

\* A faulty variant of ResolveTools: the custom tools are not added to
\* available_tools.
ResolveToolsBuiltinsOnly(cts, names) ==
    LET known == SelectSeqBy(names, Range(BuiltinNames))
    IN  [i \in 1..Len(known) |-> BuiltinTool(known[i])]
\* [available_tools[t] for t in names if t in available_tools]
ResolveTools(cts, names) ==
    LET known == SelectSeqBy(names, Range(AvailableKeys(cts)))
    IN  [i \in 1..Len(known) |-> AvailableTool(cts, known[i])]

\* Agent(name=, role=, model=OpenAIChat(id=, api_key=), tools=, instructions=, ...)
AgentHandle(name, role, model, key, tools, instructions, show, md, temp) ==
    [name |-> name, role |-> role, model |-> model, api_key |-> key,
     tools |-> tools, instructions |-> instructions,
     show_tool_calls |-> show, markdown |-> md, temperature |-> temp]

\* Agent(name=, team=, instructions=, show_tool_calls=True, markdown=True)
TeamHandle(name, members, instructions) ==
    [name |-> name, team |-> members, instructions |-> instructions]

(***************************************************************************)
(* save_data(): the document built from the session state, and the write.  *)
(***************************************************************************)
\* A faulty variant of AgentConfig: only the built-in tool names are written.
AgentConfigBuiltinToolsOnly(a) ==
    JObj(<< <<"name", JStr(a.name)>>, <<"role", JStr(a.role)>>,
            <<"tools", JStrList(SelectSeqBy(a.tools, Range(BuiltinNames)))>>,
            <<"instructions", JStrList(a.instructions)>>,
            <<"model", JStr(a.model)>>,
            <<"temperature", JNum(a.temperature)>>,
            <<"show_tool_calls", JBool(a.show_tool_calls)>>,
            <<"markdown", JBool(a.markdown)>> >>)
\* one element of agents_config, lines 170-179
AgentConfig(a) ==
    JObj(<< <<"name", JStr(a.name)>>, <<"role", JStr(a.role)>>,
            <<"tools", JStrList(a.tools)>>,
            <<"instructions", JStrList(a.instructions)>>,
            <<"model", JStr(a.model)>>,
            <<"temperature", JNum(a.temperature)>>,
            <<"show_tool_calls", JBool(a.show_tool_calls)>>,
            <<"markdown", JBool(a.markdown)>> >>)

\* A faulty variant of TeamConfig: the team dict is written whole, with its
\* live object under the key team.
TeamConfigWithHandle(t) ==
    JObj(<< <<"name", JStr(t.name)>>, <<"members", JStrList(t.members)>>,
            <<"instructions", JStrList(t.instructions)>>,
            <<"workflow", JStr(t.workflow)>>,
            <<"team", JObj(<< <<"name", JStr(t.name)>> >>)>> >>)
TeamConfig(t) ==
    JObj(<< <<"name", JStr(t.name)>>, <<"members", JStrList(t.members)>>,
            <<"instructions", JStrList(t.instructions)>>,
            <<"workflow", JStr(t.workflow)>> >>)

CustomToolConfig(t) ==
    JObj(<< <<"name", JStr(t.name)>>, <<"description", JStr(t.description)>>,
            <<"param_name", JStr(t.param_name)>>,
            <<"param_type", JStr(t.param_type)>>,
            <<"param_description", JStr(t.param_description)>>,
            <<"param_required", JBool(t.param_required)>>,
            <<"function_code", JStr(t.function_code)>> >>)

\* the `data` dict of save_data
SaveDoc(ags, tms, cts, key) ==
    JObj(<< <<"agents", JArr([i \in 1..Len(ags) |-> AgentConfig(ags[i])])>>,
            <<"teams", JArr([i \in 1..Len(tms) |-> TeamConfig(tms[i])])>>,
            <<"custom_tools",
              JArr([i \in 1..Len(cts) |-> CustomToolConfig(cts[i])])>>,
            <<"api_key", JStr(key)>> >>)

AbsentFile == [st |-> "absent", doc |-> JNull]
CorruptFile == [st |-> "corrupt", doc |-> JNull]
JsonFile(d) == [st |-> "json", doc |-> d]

\* What the file system does to the write: it succeeds, open() fails (the
\* file is left as it was), or the write fails after open(..., 'w') has
\* truncated the file (a prefix of the document, which does not parse).
IOOutcomes == {"ok", "open_fails", "write_fails"}

\* A faulty variant of SaveData: the agents are appended to the agents of
\* the document already in the file instead of replacing them.
SaveDataAppends(ags, tms, cts, key, io, f) ==
    LET old == IF /\ f.st = "json" /\ IsDict(f.doc) /\ DictHas(f.doc, "agents")
                  /\ DictGet(f.doc, "agents").j = "array"
               THEN DictGet(f.doc, "agents").a ELSE <<>>
        doc == JObj(<< <<"agents",
                         JArr(old \o [i \in 1..Len(ags) |-> AgentConfig(ags[i])])>>,
                       <<"teams", JArr([i \in 1..Len(tms) |-> TeamConfig(tms[i])])>>,
                       <<"custom_tools",
                         JArr([i \in 1..Len(cts) |-> CustomToolConfig(cts[i])])>>,
                       <<"api_key", JStr(key)>> >>)
    IN  CASE io = "ok" -> [ok |-> TRUE, file |-> JsonFile(doc)]
          [] io = "open_fails" -> [ok |-> FALSE, file |-> f]
          [] io = "write_fails" -> [ok |-> FALSE, file |-> CorruptFile]
\* save_data(): the file afterwards and the value returned
SaveData(ags, tms, cts, key, io, f) ==
    CASE io = "ok" -> [ok |-> TRUE, file |-> JsonFile(SaveDoc(ags, tms, cts, key))]
      [] io = "open_fails" -> [ok |-> FALSE, file |-> f]
      [] io = "write_fails" -> [ok |-> FALSE, file |-> CorruptFile]

(***************************************************************************)
(* load_data(): the JSON file when it exists, else the legacy pickle file; *)
(* None (JNull) when neither exists or reading raises.                     *)
(***************************************************************************)
\* A faulty variant of LoadData: the legacy file is read whenever it exists.
LoadDataLegacyFirst(f, l) ==
    IF l.st = "json" THEN l.doc
    ELSE IF f.st = "json" THEN f.doc
    ELSE JNull
\* A faulty variant of LoadData: a JSON file that does not parse falls
\* through to the legacy file.
LoadDataFallsThrough(f, l) ==
    IF f.st = "json" THEN f.doc
    ELSE IF l.st = "json" THEN l.doc
    ELSE JNull
LoadData(f, l) ==
    IF f.st = "json" THEN f.doc
    ELSE IF f.st = "corrupt" THEN JNull
    ELSE IF l.st = "json" THEN l.doc
    ELSE JNull

(***************************************************************************)
(* Session initialization (lines 319-391).  Each recreate step ends "ok",  *)
(* "skip" (the record is left out and the loop goes on) or "raise" (an     *)
(* exception leaves the handler and the script run ends there).            *)
(***************************************************************************)
ToolCtorKeys == {"description", "param_name", "param_type",
                 "param_description", "function_code"}

\* recreate_custom_tool(tool_config).  tool_config['name'] is read first in
\* the try block and again in the except block's message, outside any try.
\* (The documents of the model carry param_required in every tool record.)
ToolOutcome(tc) ==
    IF ~(IsDict(tc) /\ DictHas(tc, "name")) THEN "raise"
    ELSE IF \A k \in ToolCtorKeys : DictHas(tc, k) THEN "ok"
    ELSE "skip"

\* {**tool_config, 'tool_obj': tool_obj}
MemTool(tc) ==
    [name |-> StrOf(tc, "name"), description |-> StrOf(tc, "description"),
     param_name |-> StrOf(tc, "param_name"),
     param_type |-> StrOf(tc, "param_type"),
     param_description |-> StrOf(tc, "param_description"),
     param_required |-> DictGet(tc, "param_required").j = "true",
     function_code |-> StrOf(tc, "function_code"),
     tool_obj |-> DynamicTool(StrOf(tc, "name"), StrOf(tc, "function_code"))]

\* recreate_agent_from_config(agent_config, api_key): any exception in the
\* try block is caught, and the except block's message reads
\* agent_config['name'] again.  A tools value that is no list raises
\* TypeError in the comprehension.
AgentOutcome(ac) ==
    IF ~(IsDict(ac) /\ DictHas(ac, "name")) THEN "raise"
    ELSE IF /\ DictHas(ac, "tools") /\ DictGet(ac, "tools").j = "array"
            /\ DictHas(ac, "role") /\ DictHas(ac, "instructions")
         THEN "ok"
    ELSE "skip"

\* agent_config.get(k, default) for the optional keys
GetStr(d, k, default) == IF DictHas(d, k) THEN DictGet(d, k).s ELSE default
GetNum(d, k, default) == IF DictHas(d, k) THEN DictGet(d, k).n ELSE default
GetBool(d, k, default) == IF DictHas(d, k) THEN DictGet(d, k).j = "true" ELSE default

\* the dict appended to st.session_state.agents (lines 352-362)
MemAgent(ac, key, cts) ==
    LET model == GetStr(ac, "model", "gpt-4")
        temp == GetNum(ac, "temperature", 7)
        show == GetBool(ac, "show_tool_calls", TRUE)
        md == GetBool(ac, "markdown", TRUE)
    IN  [name |-> StrOf(ac, "name"), role |-> StrOf(ac, "role"),
         tools |-> StrListOf(ac, "tools"),
         instructions |-> StrListOf(ac, "instructions"),
         model |-> model, temperature |-> temp,
         show_tool_calls |-> show, markdown |-> md,
         agent |-> AgentHandle(StrOf(ac, "name"), StrOf(ac, "role"), model, key,
                               ResolveTools(cts, StrListOf(ac, "tools")),
                               StrListOf(ac, "instructions"), show, md, temp)]

\* [a['agent'] for a in st.session_state.agents if a['name'] in members]
TeamAgents(ags, members) ==
    LET hit == SelectSeq(ags, LAMBDA a : a.name \in Range(members))
    IN  [i \in 1..Len(hit) |-> hit[i].agent]

MinTeam == 2

\* One team_config of the loop at lines 366-391.  team_config['members'] is
\* read in the comprehension's condition, outside the try block, once per
\* agent in memory.
TeamOutcome(tc, ags) ==
    IF ags # <<>> /\ ~HasStrList(tc, "members") THEN "raise"
    ELSE IF ags = <<>> THEN "skip"
    ELSE IF Len(TeamAgents(ags, StrListOf(tc, "members"))) < MinTeam THEN "skip"
    ELSE IF ~DictHas(tc, "name") THEN "raise"
    ELSE IF ~DictHas(tc, "instructions") THEN "skip"
    ELSE "ok"

MemTeam(tc, ags) ==
    [name |-> StrOf(tc, "name"), members |-> StrListOf(tc, "members"),
     instructions |-> StrListOf(tc, "instructions"),
     workflow |-> GetStr(tc, "workflow", "Sequential"),
     team |-> TeamHandle(StrOf(tc, "name"),
                         TeamAgents(ags, StrListOf(tc, "members")),
                         StrListOf(tc, "instructions"))]

\* `for x in v`: the items, or a TypeError when v is not iterable.  A string
\* or a dict iterates over strings (its characters, its keys).
Iterable(v) == v.j \in {"array", "string", "object"}
Items(v) ==
    CASE v.j = "array" -> v.a
      [] v.j = "string" -> IF v.s = "" THEN <<>> ELSE <<JStr(v.s)>>
      [] v.j = "object" -> [i \in 1..Len(v.o) |-> JStr(v.o[i][1])]
      [] OTHER -> <<>>

RECURSIVE RecreateTools(_, _)
RecreateTools(cfgs, acc) ==
    IF cfgs = <<>> THEN [list |-> acc, raised |-> FALSE]
    ELSE LET out == ToolOutcome(Head(cfgs))
         IN  IF out = "raise" THEN [list |-> acc, raised |-> TRUE]
             ELSE RecreateTools(Tail(cfgs),
                    IF out = "ok" THEN Append(acc, MemTool(Head(cfgs))) ELSE acc)

\* A faulty variant of RecreateAgents: the agents are recreated before the
\* custom tools, so no custom tool is in available_tools yet.
RECURSIVE RecreateAgentsBeforeTools(_, _, _, _)
RecreateAgentsBeforeTools(cfgs, key, cts, acc) ==
    IF cfgs = <<>> THEN [list |-> acc, raised |-> FALSE]
    ELSE LET out == AgentOutcome(Head(cfgs))
         IN  IF out = "raise" THEN [list |-> acc, raised |-> TRUE]
             ELSE RecreateAgentsBeforeTools(Tail(cfgs), key, cts,
                    IF out = "ok" THEN Append(acc, MemAgent(Head(cfgs), key, <<>>))
                    ELSE acc)
RECURSIVE RecreateAgents(_, _, _, _)
RecreateAgents(cfgs, key, cts, acc) ==
    IF cfgs = <<>> THEN [list |-> acc, raised |-> FALSE]
    ELSE LET out == AgentOutcome(Head(cfgs))
         IN  IF out = "raise" THEN [list |-> acc, raised |-> TRUE]
             ELSE RecreateAgents(Tail(cfgs), key, cts,
                    IF out = "ok" THEN Append(acc, MemAgent(Head(cfgs), key, cts))
                    ELSE acc)

RECURSIVE RecreateTeams(_, _, _)
RecreateTeams(cfgs, ags, acc) ==
    IF cfgs = <<>> THEN [list |-> acc, raised |-> FALSE]
    ELSE LET out == TeamOutcome(Head(cfgs), ags)
         IN  IF out = "raise" THEN [list |-> acc, raised |-> TRUE]
             ELSE RecreateTeams(Tail(cfgs), ags,
                    IF out = "ok" THEN Append(acc, MemTeam(Head(cfgs), ags)) ELSE acc)

\* saved_data.get('api_key', os.getenv('OPENAI_API_KEY', '')); a value that
\* is no string (null) is falsy and is read as the empty credential.
SavedKey(saved, env) ==
    IF DictHas(saved, "api_key")
    THEN IF DictGet(saved, "api_key").j = "string" THEN StrOf(saved, "api_key") ELSE ""
    ELSE env

\* One stage of the initialization: `if k in saved_data [and api_key]:
\* for cfg in saved_data[k]: ...`
StageRuns(saved, k) == DictHas(saved, k)
StageRaises(saved, k) == DictHas(saved, k) /\ ~Iterable(DictGet(saved, k))

\* The session state the initialization leaves, and whether it raised.
Startup(saved, env) ==
    LET empty == [api_key |-> env, custom_tools |-> <<>>, agents |-> <<>>,
                  teams |-> <<>>, raised |-> FALSE]
    IN
    IF ~Truthy(saved) THEN empty
    ELSE IF ~IsDict(saved) THEN [empty EXCEPT !.raised = TRUE]
    ELSE
    LET key == SavedKey(saved, env)
        s0 == [empty EXCEPT !.api_key = key]
        ct == IF ~StageRuns(saved, "custom_tools") THEN [list |-> <<>>, raised |-> FALSE]
              ELSE IF StageRaises(saved, "custom_tools") THEN [list |-> <<>>, raised |-> TRUE]
              ELSE RecreateTools(Items(DictGet(saved, "custom_tools")), <<>>)
        s1 == [s0 EXCEPT !.custom_tools = ct.list, !.raised = ct.raised]
        ag == IF ~(StageRuns(saved, "agents") /\ key # "") THEN [list |-> <<>>, raised |-> FALSE]
              ELSE IF StageRaises(saved, "agents") THEN [list |-> <<>>, raised |-> TRUE]
              ELSE RecreateAgents(Items(DictGet(saved, "agents")), key, ct.list, <<>>)
        s2 == [s1 EXCEPT !.agents = ag.list, !.raised = ag.raised]
        tm == IF ~(StageRuns(saved, "teams") /\ key # "") THEN [list |-> <<>>, raised |-> FALSE]
              ELSE IF StageRaises(saved, "teams") THEN [list |-> <<>>, raised |-> TRUE]
              ELSE RecreateTeams(Items(DictGet(saved, "teams")), ag.list, <<>>)
        s3 == [s2 EXCEPT !.teams = tm.list, !.raised = tm.raised]
    IN  IF ct.raised THEN s1 ELSE IF ag.raised THEN s2 ELSE s3

(***************************************************************************)
(* Inputs: what the user types into the forms, and what is on disk and in  *)
(* the environment when the program first starts.                          *)
(***************************************************************************)
Keys == {"", "k"}

\* str.strip() on the instruction lines the forms offer
Strip(l) ==
    CASE l = " " -> ""
      [] l = " i2" -> "i2"
      [] OTHER -> l

RECURSIVE InstructionsList(_)
\* [i.strip() for i in text.split('\n') if i.strip()]
InstructionsList(lines) ==
    IF lines = <<>> THEN <<>>
    ELSE IF Strip(Head(lines)) # "" THEN <<Strip(Head(lines))>> \o InstructionsList(Tail(lines))
    ELSE InstructionsList(Tail(lines))

\* The agent form (tab 1) with the sidebar's model selectbox.
AgentForms ==
    { [name |-> "A", role |-> "r", tools |-> <<"Calculator", "double">>,
       lines |-> <<"i1", " ", " i2">>, model |-> "gpt-4", temperature |-> 7,
       show_tool_calls |-> TRUE, markdown |-> TRUE],
      [name |-> "A", role |-> "r2", tools |-> <<"Web Search">>,
       lines |-> <<"i2">>, model |-> "gpt-4o", temperature |-> 0,
       show_tool_calls |-> FALSE, markdown |-> FALSE],
      [name |-> "B", role |-> "r", tools |-> <<>>,
       lines |-> <<>>, model |-> "gpt-4", temperature |-> 7,
       show_tool_calls |-> TRUE, markdown |-> TRUE],
      [name |-> "", role |-> "r", tools |-> <<>>,
       lines |-> <<"i1">>, model |-> "gpt-4", temperature |-> 7,
       show_tool_calls |-> TRUE, markdown |-> TRUE] }

\* The team form (tab 2).
TeamForms ==
    { [name |-> "T1", selected |-> <<"A", "B">>, lines |-> <<"w1", " ">>,
       workflow |-> "Sequential (Step by step)"],
      [name |-> "T2", selected |-> <<"C", "A">>, lines |-> <<>>,
       workflow |-> "Parallel (All at once)"],
      [name |-> "", selected |-> <<"A", "B">>, lines |-> <<>>,
       workflow |-> "Sequential (Step by step)"],
      [name |-> "T1", selected |-> <<"A">>, lines |-> <<>>,
       workflow |-> "Sequential (Step by step)"] }

\* The custom tool form (tab 3).
ToolForms ==
    { [name |-> "double", description |-> "d", param_name |-> "x",
       param_type |-> "number", param_description |-> "pd",
       param_required |-> TRUE, function_code |-> "result = x * 2"],
      [name |-> "double", description |-> "d2", param_name |-> "x",
       param_type |-> "number", param_description |-> "",
       param_required |-> FALSE, function_code |-> "result = x + x"],
      [name |-> "Calculator", description |-> "d", param_name |-> "e",
       param_type |-> "string", param_description |-> "pd",
       param_required |-> TRUE, function_code |-> "result = 0"],
      [name |-> "double", description |-> "d", param_name |-> "x",
       param_type |-> "number", param_description |-> "pd",
       param_required |-> TRUE, function_code |-> ""] }

(***************************************************************************)
(* Documents an earlier session of the program wrote with save_data().     *)
(***************************************************************************)
RecA == [name |-> "A", role |-> "r", tools |-> <<"Calculator", "double">>,
         instructions |-> <<"i1", "i2">>, model |-> "gpt-4", temperature |-> 7,
         show_tool_calls |-> TRUE, markdown |-> TRUE]
RecA2 == [name |-> "A", role |-> "r2", tools |-> <<"Web Search">>,
          instructions |-> <<"i2">>, model |-> "gpt-4o", temperature |-> 0,
          show_tool_calls |-> FALSE, markdown |-> FALSE]
RecB == [name |-> "B", role |-> "r", tools |-> <<>>,
         instructions |-> <<>>, model |-> "gpt-4", temperature |-> 7,
         show_tool_calls |-> TRUE, markdown |-> TRUE]
\* "ghost" names a custom tool that was deleted after the agent was created
RecC == [name |-> "C", role |-> "r", tools |-> <<"ghost", "double">>,
         instructions |-> <<"i1">>, model |-> "gpt-4", temperature |-> 7,
         show_tool_calls |-> TRUE, markdown |-> TRUE]
RecT1 == [name |-> "T1", members |-> <<"A", "B">>, instructions |-> <<"w1">>,
          workflow |-> "Sequential (Step by step)"]
RecT2 == [name |-> "T2", members |-> <<"C", "A">>, instructions |-> <<>>,
          workflow |-> "Parallel (All at once)"]
RecDouble == [name |-> "double", description |-> "d", param_name |-> "x",
              param_type |-> "number", param_description |-> "pd",
              param_required |-> TRUE, function_code |-> "result = x * 2"]

DocFull == SaveDoc(<<RecA, RecB, RecC>>, <<RecT1, RecT2>>, <<RecDouble>>, "k")
DocNoKey == SaveDoc(<<RecA, RecB>>, <<RecT1>>, <<RecDouble>>, "")
DocDup == SaveDoc(<<RecA, RecA2, RecB>>, <<RecT1>>, <<>>, "k")
\* written after agent B was deleted and the credential cleared
DocOrphanNoKey == SaveDoc(<<RecA, RecC>>, <<RecT1, RecT2>>, <<RecDouble>>, "")
\* written after agent B was deleted
DocOrphan == SaveDoc(<<RecA, RecC>>, <<RecT1, RecT2>>, <<RecDouble>>, "k")
DocCalc == SaveDoc(<<[RecC EXCEPT !.name = "Calc", !.tools = <<"double">>]>>,
                   <<>>, <<RecDouble>>, "k")
DocLegacy == SaveDoc(<<RecB>>, <<>>, <<>>, "k")

(***************************************************************************)
(* Documents the program did not write: other JSON types, and records with *)
(* a required key missing.                                                 *)
(***************************************************************************)
\* obj without its member k
Without(obj, k) == JObj(SelectSeq(obj.o, LAMBDA m : m[1] # k))
\* obj with member k set to v
With(obj, k, v) == JObj(SelectSeq(obj.o, LAMBDA m : m[1] # k) \o << <<k, v>> >>)

DocTopList == JArr(<<JNum(1)>>)
DocTopEmpty == JArr(<<>>)
DocAgentsNumber == With(DocFull, "agents", JNum(5))
DocAgentsStrings == With(DocFull, "agents", JArr(<<JStr("A")>>))
DocToolNoName ==
    With(DocFull, "custom_tools",
         JArr(<<Without(CustomToolConfig(RecDouble), "name"), CustomToolConfig(RecDouble)>>))
DocToolNoDescription ==
    With(DocFull, "custom_tools",
         JArr(<<Without(CustomToolConfig([RecDouble EXCEPT !.name = "half"]), "description"),
                CustomToolConfig(RecDouble)>>))
DocAgentNoTools ==
    With(DocFull, "agents",
         JArr(<<Without(AgentConfig(RecB), "tools"), AgentConfig(RecA), AgentConfig(RecC)>>))
DocAgentNoName ==
    With(DocFull, "agents",
         JArr(<<Without(AgentConfig(RecB), "name"), AgentConfig(RecA), AgentConfig(RecC)>>))
DocTeamNoMembers ==
    With(DocFull, "teams", JArr(<<Without(TeamConfig(RecT1), "members"), TeamConfig(RecT2)>>))
DocTeamNoInstructions ==
    With(DocFull, "teams", JArr(<<Without(TeamConfig(RecT1), "instructions"), TeamConfig(RecT2)>>))
DocNoApiKey == Without(DocCalc, "api_key")

WrittenDocs == {DocFull, DocNoKey, DocOrphanNoKey, DocOrphan, DocDup, DocCalc}
WrongTypeDocs == {DocTopList, DocTopEmpty, DocAgentsNumber, DocAgentsStrings}
MalformedDocs == {DocToolNoName, DocToolNoDescription, DocAgentNoTools, DocAgentNoName,
                  DocTeamNoMembers, DocTeamNoInstructions, DocNoApiKey}

\* <<config.json, config.pkl, OPENAI_API_KEY>> when the program first starts
InitialDisks ==
    {<<AbsentFile, AbsentFile, "">>, <<AbsentFile, AbsentFile, "k">>,
     <<AbsentFile, JsonFile(DocLegacy), "">>,
     <<CorruptFile, JsonFile(DocLegacy), "k">>,
     <<JsonFile(DocNoApiKey), AbsentFile, "k">>,
     <<JsonFile(DocNoApiKey), AbsentFile, "">>}
    \cup {<<JsonFile(d), AbsentFile, "">> : d \in WrittenDocs \cup WrongTypeDocs \cup MalformedDocs}
    \cup {<<JsonFile(DocFull), JsonFile(DocLegacy), "k">>}

(***************************************************************************)
(* The state before the first script run.                                  *)
(***************************************************************************)
NoEdit == <<>>
NoSave == "none"
Ran(op, save, raised) == [op |-> op, save |-> save, raised |-> raised]
SaveTag(r) == IF r.ok THEN "ok" ELSE "fail"

Init ==
    /\ initialized = FALSE
    /\ agents = <<>>
    /\ teams = <<>>
    /\ custom_tools = <<>>
    /\ api_key = ""
    /\ editing_agent = NoEdit
    /\ \E d \in InitialDisks : file = d[1] /\ legacy = d[2] /\ env_key = d[3]
    /\ last = Ran("Init", NoSave, FALSE)
    /\ io_failures = 0
    /\ steps = 0

Step == steps < MaxSteps /\ steps' = steps + 1

\* A faulty variant of Save: save_data() is called before the handler has
\* assigned the session state, so the file holds the state before the run.
SaveBeforeMutation(op, ags, tms, cts, key) ==
    \E io \in IOOutcomes :
        /\ io = "ok" \/ io_failures < MaxIOFailures
        /\ LET r == SaveData(agents, teams, custom_tools, api_key, io, file)
           IN  /\ file' = r.file
               /\ last' = Ran(op, SaveTag(r), FALSE)
               /\ io_failures' = IF r.ok THEN io_failures ELSE io_failures + 1
        /\ agents' = ags
        /\ teams' = tms
        /\ custom_tools' = cts
        /\ api_key' = key
\* A handler's call of save_data() with the session state (ags, tms, cts,
\* key) the handler has set before the call: save_data() reads the session
\* state, writes the file and assigns nothing.
SaveForgetsOnFailure(op, ags, tms, cts, key) ==
    \E io \in IOOutcomes :
        /\ io = "ok" \/ io_failures < MaxIOFailures
        /\ LET r == SaveData(ags, tms, cts, key, io, file)
           IN  /\ file' = r.file
               /\ last' = Ran(op, SaveTag(r), FALSE)
               /\ io_failures' = IF r.ok THEN io_failures ELSE io_failures + 1
               /\ agents' = IF r.ok THEN ags ELSE <<>>
               /\ teams' = IF r.ok THEN tms ELSE <<>>
               /\ custom_tools' = IF r.ok THEN cts ELSE <<>>
               /\ api_key' = key
Save(op, ags, tms, cts, key) ==
    \E io \in IOOutcomes :
        /\ io = "ok" \/ io_failures < MaxIOFailures
        /\ LET r == SaveData(ags, tms, cts, key, io, file)
           IN  /\ file' = r.file
               /\ last' = Ran(op, SaveTag(r), FALSE)
               /\ io_failures' = IF r.ok THEN io_failures ELSE io_failures + 1
        /\ agents' = ags
        /\ teams' = tms
        /\ custom_tools' = cts
        /\ api_key' = key

\* A handler that does not reach save_data().
NoWrite(op, raised) ==
    /\ last' = Ran(op, NoSave, raised)
    /\ UNCHANGED <<file, io_failures>>

(***************************************************************************)
(* Session initialization, lines 319-391: runs once per session.           *)
(***************************************************************************)
Start ==
    /\ ~initialized
    /\ Step
    /\ LET r == Startup(LoadData(file, legacy), env_key)
       IN  /\ initialized' = TRUE
           /\ agents' = r.agents
           /\ teams' = r.teams
           /\ custom_tools' = r.custom_tools
           /\ api_key' = r.api_key
           /\ editing_agent' = NoEdit
           /\ NoWrite("Start", r.raised)
    /\ UNCHANGED <<legacy, env_key>>

\* The session ends (the browser tab is reloaded or the process restarts):
\* the next script run finds no 'initialized' in st.session_state.
Stop ==
    /\ initialized
    /\ UNCHANGED steps
    /\ initialized' = FALSE
    /\ agents' = <<>>
    /\ teams' = <<>>
    /\ custom_tools' = <<>>
    /\ api_key' = ""
    /\ editing_agent' = NoEdit
    /\ NoWrite("Stop", FALSE)
    /\ UNCHANGED <<legacy, env_key>>

(***************************************************************************)
(* Sidebar, lines 402-410 and 447-449.                                     *)
(***************************************************************************)
ChangeKey ==
    /\ initialized
    /\ Step
    /\ \E k \in Keys :
        /\ k # api_key
        /\ Save("ChangeKey", agents, teams, custom_tools, k)
    /\ UNCHANGED <<initialized, editing_agent, legacy, env_key>>

SaveAll ==
    /\ initialized
    /\ Step
    /\ Save("SaveAll", agents, teams, custom_tools, api_key)
    /\ UNCHANGED <<initialized, editing_agent, legacy, env_key>>

(***************************************************************************)
(* Tab 1: Create or Update Agent (lines 530-579), Cancel Editing (461-463).*)
(***************************************************************************)
\* agent_data, lines 537-562
AgentData(f, key, cts) ==
    LET ins == InstructionsList(f.lines)
    IN  [name |-> f.name, role |-> f.role, tools |-> f.tools, instructions |-> ins,
         model |-> f.model, temperature |-> f.temperature,
         show_tool_calls |-> f.show_tool_calls, markdown |-> f.markdown,
         agent |-> AgentHandle(f.name, f.role, f.model, key,
                               [i \in 1..Len(f.tools) |-> AvailableTool(cts, f.tools[i])],
                               ins, f.show_tool_calls, f.markdown, f.temperature)]

\* the multiselect offers list(available_tools.keys())
FormOffered(f) == Range(f.tools) \subseteq Range(AvailableKeys(custom_tools))

\* lines 531-534: the two error branches
RejectAgent ==
    /\ initialized
    /\ Step
    /\ \E f \in AgentForms :
        /\ FormOffered(f)
        /\ api_key = "" \/ f.name = ""
    /\ NoWrite("RejectAgent", FALSE)
    /\ UNCHANGED <<initialized, agents, teams, custom_tools, api_key, editing_agent,
                   legacy, env_key>>

\* lines 571-575
CreateAgent ==
    /\ initialized
    /\ Step
    /\ editing_agent = NoEdit
    /\ Len(agents) < MaxAgents
    /\ \E f \in AgentForms :
        /\ FormOffered(f)
        /\ api_key # "" /\ f.name # ""
        /\ Save("CreateAgent", Append(agents, AgentData(f, api_key, custom_tools)),
                teams, custom_tools, api_key)
    /\ UNCHANGED <<initialized, editing_agent, legacy, env_key>>

\* lines 564-570.  st.session_state.agents[idx] = agent_data raises
\* IndexError when idx is past the end; the except block of line 578
\* reports it and nothing else runs.
UpdateAgent ==
    /\ initialized
    /\ Step
    /\ editing_agent # NoEdit
    /\ \E f \in AgentForms :
        /\ FormOffered(f)
        /\ api_key # "" /\ f.name # ""
        /\ LET idx == editing_agent[1].index
           IN  IF idx < Len(agents)
               THEN /\ editing_agent' = NoEdit
                    /\ Save("UpdateAgent",
                            [agents EXCEPT ![idx + 1] = AgentData(f, api_key, custom_tools)],
                            teams, custom_tools, api_key)
               ELSE /\ NoWrite("UpdateAgent", FALSE)
                    /\ UNCHANGED <<agents, teams, custom_tools, api_key, editing_agent>>
    /\ UNCHANGED <<initialized, legacy, env_key>>

CancelEditing ==
    /\ initialized
    /\ Step
    /\ editing_agent # NoEdit
    /\ editing_agent' = NoEdit
    /\ NoWrite("CancelEditing", FALSE)
    /\ UNCHANGED <<initialized, agents, teams, custom_tools, api_key, legacy, env_key>>

(***************************************************************************)
(* Tab 2: Create Team (lines 585-663), shown with two or more agents.      *)
(***************************************************************************)
\* the multiselect offers agent_names
TeamOffered(f) == Range(f.selected) \subseteq {agents[i].name : i \in 1..Len(agents)}

\* lines 628-631: the two error branches
RejectTeam ==
    /\ initialized
    /\ Step
    /\ Len(agents) >= 2
    /\ \E f \in TeamForms :
        /\ TeamOffered(f)
        /\ f.name = "" \/ Len(f.selected) < 2
    /\ NoWrite("RejectTeam", FALSE)
    /\ UNCHANGED <<initialized, agents, teams, custom_tools, api_key, editing_agent,
                   legacy, env_key>>

\* lines 632-661
CreateTeam ==
    /\ initialized
    /\ Step
    /\ Len(agents) >= 2
    /\ Len(teams) < MaxTeams
    /\ \E f \in TeamForms :
        /\ TeamOffered(f)
        /\ f.name # "" /\ Len(f.selected) >= 2
        /\ LET ins == InstructionsList(f.lines)
           IN  Save("CreateTeam", agents,
                    Append(teams,
                        [name |-> f.name, members |-> f.selected, instructions |-> ins,
                         workflow |-> f.workflow,
                         team |-> TeamHandle(f.name, TeamAgents(agents, f.selected), ins)]),
                    custom_tools, api_key)
    /\ UNCHANGED <<initialized, editing_agent, legacy, env_key>>

(***************************************************************************)
(* Tab 3: Create Custom Tool (lines 710-765), Delete (778-781).            *)
(***************************************************************************)
\* A faulty variant of ToolFormFilled: the function code is not checked.
ToolFormFilledWithoutCode(f) == f.name # "" /\ f.description # ""
ToolFormFilled(f) == f.name # "" /\ f.description # "" /\ f.function_code # ""

\* lines 711-712
RejectCustomTool ==
    /\ initialized
    /\ Step
    /\ \E f \in ToolForms : ~ToolFormFilled(f)
    /\ NoWrite("RejectCustomTool", FALSE)
    /\ UNCHANGED <<initialized, agents, teams, custom_tools, api_key, editing_agent,
                   legacy, env_key>>

\* lines 713-762
CreateCustomTool ==
    /\ initialized
    /\ Step
    /\ Len(custom_tools) < MaxCustomTools
    /\ \E f \in ToolForms :
        /\ ToolFormFilled(f)
        /\ Save("CreateCustomTool", agents, teams,
                Append(custom_tools,
                    [name |-> f.name, description |-> f.description,
                     param_name |-> f.param_name, param_type |-> f.param_type,
                     param_description |-> f.param_description,
                     param_required |-> f.param_required,
                     function_code |-> f.function_code,
                     tool_obj |-> DynamicTool(f.name, f.function_code)]),
                api_key)
    /\ UNCHANGED <<initialized, editing_agent, legacy, env_key>>

DeleteCustomTool ==
    /\ initialized
    /\ Step
    /\ \E idx \in 0..(Len(custom_tools) - 1) :
        Save("DeleteCustomTool", agents, teams, Pop(custom_tools, idx), api_key)
    /\ UNCHANGED <<initialized, editing_agent, legacy, env_key>>

(***************************************************************************)
(* Tab 5: Edit / Delete Agent (877-884), Delete Team (899-902), Clear All  *)
(* Data (970-978).                                                         *)
(***************************************************************************)
EditAgent ==
    /\ initialized
    /\ Step
    /\ \E idx \in 0..(Len(agents) - 1) :
        editing_agent' = <<[rec |-> agents[idx + 1], index |-> idx]>>
    /\ NoWrite("EditAgent", FALSE)
    /\ UNCHANGED <<initialized, agents, teams, custom_tools, api_key, legacy, env_key>>

DeleteAgent ==
    /\ initialized
    /\ Step
    /\ \E idx \in 0..(Len(agents) - 1) :
        Save("DeleteAgent", Pop(agents, idx), teams, custom_tools, api_key)
    /\ UNCHANGED <<initialized, editing_agent, legacy, env_key>>

DeleteTeam ==
    /\ initialized
    /\ Step
    /\ \E idx \in 0..(Len(teams) - 1) :
        Save("DeleteTeam", agents, Pop(teams, idx), custom_tools, api_key)
    /\ UNCHANGED <<initialized, editing_agent, legacy, env_key>>

\* the button and its confirmation checkbox both answer True
ClearAll ==
    /\ initialized
    /\ Step
    /\ Save("ClearAll", <<>>, <<>>, <<>>, api_key)
    /\ UNCHANGED <<initialized, editing_agent, legacy, env_key>>

Next ==
    \/ Start
    \/ Stop
    \/ ChangeKey
    \/ SaveAll
    \/ RejectAgent
    \/ CreateAgent
    \/ UpdateAgent
    \/ CancelEditing
    \/ RejectTeam
    \/ CreateTeam
    \/ RejectCustomTool
    \/ CreateCustomTool
    \/ DeleteCustomTool
    \/ EditAgent
    \/ DeleteAgent
    \/ DeleteTeam
    \/ ClearAll

Spec == Init /\ [][Next]_vars

(***************************************************************************)
(* The same program observed from a session that has just been started on  *)
(* a document save_data() wrote: the state the session initialization      *)
(* leaves, with steps counting the script runs after it.                   *)
(***************************************************************************)
InitStarted ==
    \E d \in WrittenDocs :
        LET r == Startup(LoadData(JsonFile(d), AbsentFile), "")
        IN  /\ initialized = TRUE
            /\ agents = r.agents
            /\ teams = r.teams
            /\ custom_tools = r.custom_tools
            /\ api_key = r.api_key
            /\ editing_agent = NoEdit
            /\ file = JsonFile(d) /\ legacy = AbsentFile /\ env_key = ""
            /\ last = Ran("Start", NoSave, r.raised)
            /\ io_failures = 0
            /\ steps = 0

SpecStarted == InitStarted /\ [][Next]_vars

(***************************************************************************)
(* Reading a document the way a reader of the storage format does: the     *)
(* record fields of section 3 of the specification, by key and JSON type.  *)
(***************************************************************************)
IsBool(v) == v.j \in {"true", "false"}
AgentKeys == {"name", "role", "tools", "instructions", "model", "temperature",
              "show_tool_calls", "markdown"}
TeamKeys == {"name", "members", "instructions", "workflow"}
ToolKeys == {"name", "description", "param_name", "param_type", "param_description",
             "param_required", "function_code"}
KeysOf(v) == {v.o[i][1] : i \in 1..Len(v.o)}

WellFormedAgent(v) ==
    /\ IsDict(v) /\ KeysOf(v) = AgentKeys /\ Len(v.o) = Cardinality(AgentKeys)
    /\ HasStr(v, "name") /\ HasStr(v, "role") /\ HasStr(v, "model")
    /\ HasStrList(v, "tools") /\ HasStrList(v, "instructions")
    /\ DictGet(v, "temperature").j = "number"
    /\ IsBool(DictGet(v, "show_tool_calls")) /\ IsBool(DictGet(v, "markdown"))
WellFormedTeam(v) ==
    /\ IsDict(v) /\ KeysOf(v) = TeamKeys /\ Len(v.o) = Cardinality(TeamKeys)
    /\ HasStr(v, "name") /\ HasStr(v, "workflow")
    /\ HasStrList(v, "members") /\ HasStrList(v, "instructions")
WellFormedTool(v) ==
    /\ IsDict(v) /\ KeysOf(v) = ToolKeys /\ Len(v.o) = Cardinality(ToolKeys)
    /\ \A k \in ToolKeys \ {"param_required"} : HasStr(v, k)
    /\ IsBool(DictGet(v, "param_required"))

IsListAt(d, k) == DictHas(d, k) /\ DictGet(d, k).j = "array"
ListAt(d, k) == DictGet(d, k).a

\* agents, teams and custom_tools are lists of well-formed records
ValidRecords(d) ==
    /\ IsDict(d)
    /\ IsListAt(d, "agents") /\ IsListAt(d, "teams") /\ IsListAt(d, "custom_tools")
    /\ \A i \in 1..Len(ListAt(d, "agents")) : WellFormedAgent(ListAt(d, "agents")[i])
    /\ \A i \in 1..Len(ListAt(d, "teams")) : WellFormedTeam(ListAt(d, "teams")[i])
    /\ \A i \in 1..Len(ListAt(d, "custom_tools")) : WellFormedTool(ListAt(d, "custom_tools")[i])
\* a document as save_data() writes it
ValidDoc(d) == ValidRecords(d) /\ HasStr(d, "api_key")

ReadAgent(v) ==
    [name |-> StrOf(v, "name"), role |-> StrOf(v, "role"),
     tools |-> StrListOf(v, "tools"), instructions |-> StrListOf(v, "instructions"),
     model |-> StrOf(v, "model"), temperature |-> DictGet(v, "temperature").n,
     show_tool_calls |-> DictGet(v, "show_tool_calls").j = "true",
     markdown |-> DictGet(v, "markdown").j = "true"]
ReadTeam(v) ==
    [name |-> StrOf(v, "name"), members |-> StrListOf(v, "members"),
     instructions |-> StrListOf(v, "instructions"), workflow |-> StrOf(v, "workflow")]
ReadTool(v) ==
    [name |-> StrOf(v, "name"), description |-> StrOf(v, "description"),
     param_name |-> StrOf(v, "param_name"), param_type |-> StrOf(v, "param_type"),
     param_description |-> StrOf(v, "param_description"),
     param_required |-> DictGet(v, "param_required").j = "true",
     function_code |-> StrOf(v, "function_code")]

DocAgents(d) == [i \in 1..Len(ListAt(d, "agents")) |-> ReadAgent(ListAt(d, "agents")[i])]
DocTeams(d) == [i \in 1..Len(ListAt(d, "teams")) |-> ReadTeam(ListAt(d, "teams")[i])]
DocTools(d) ==
    [i \in 1..Len(ListAt(d, "custom_tools")) |-> ReadTool(ListAt(d, "custom_tools")[i])]

\* the declared fields of the in-memory records, without the live handles
AgentFields(a) ==
    [name |-> a.name, role |-> a.role, tools |-> a.tools, instructions |-> a.instructions,
     model |-> a.model, temperature |-> a.temperature,
     show_tool_calls |-> a.show_tool_calls, markdown |-> a.markdown]
TeamFields(t) ==
    [name |-> t.name, members |-> t.members, instructions |-> t.instructions,
     workflow |-> t.workflow]
ToolFields(t) ==
    [name |-> t.name, description |-> t.description, param_name |-> t.param_name,
     param_type |-> t.param_type, param_description |-> t.param_description,
     param_required |-> t.param_required, function_code |-> t.function_code]
MemAgents == [i \in 1..Len(agents) |-> AgentFields(agents[i])]
MemTeams == [i \in 1..Len(teams) |-> TeamFields(teams[i])]
MemTools == [i \in 1..Len(custom_tools) |-> ToolFields(custom_tools[i])]

\* the session initialization has just run on a JSON file that parses
StartedOnJson == last.op = "Start" /\ file.st = "json"

(***************************************************************************)
(* C1.  Round trip: after a save_data() that succeeded, load_data()        *)
(* returns a document whose agents, teams and custom tools carry exactly   *)
(* the field values of the session state, every list in the same order,    *)
(* and the same credential.                                                *)
(***************************************************************************)
C1_RoundTrip ==
    last.save = "ok" =>
        LET d == LoadData(file, legacy)
        IN  /\ ValidDoc(d)
            /\ DocAgents(d) = MemAgents
            /\ DocTeams(d) = MemTeams
            /\ DocTools(d) = MemTools
            /\ StrOf(d, "api_key") = api_key

\* a saved workspace with several records, lists of two and more elements,
\* a tool name that resolves to nothing, and a credential
C1_Witness ==
    /\ last.save = "ok"
    /\ api_key # ""
    /\ Len(agents) >= 2 /\ Len(teams) >= 2 /\ Len(custom_tools) >= 1
    /\ \E i \in 1..Len(agents) :
        /\ Len(agents[i].tools) >= 2 /\ Len(agents[i].instructions) >= 2
        /\ ~(Range(agents[i].tools) \subseteq Range(BuiltinNames))
    /\ \E i \in 1..Len(agents) : agents[i].tools # <<>> /\ agents[i].name # agents[1].name

(***************************************************************************)
(* C2.  An agent record is destroyed only by an explicit delete: after a    *)
(* startup in which the stored agents failed activation because the        *)
(* credential is absent, a script run that is neither Delete Agent, Clear  *)
(* All Data nor Update Agent, and whose save_data() succeeds, leaves every *)
(* agent record of the persisted document in the persisted document.       *)
(***************************************************************************)
C2_AgentsStayUntilDeleted ==
    [][ ( /\ StartedOnJson /\ ValidDoc(file.doc) /\ api_key = ""
          /\ last'.op \notin {"DeleteAgent", "ClearAll", "UpdateAgent", "Stop"}
          /\ last'.save = "ok" )
        => /\ file'.st = "json" /\ ValidDoc(file'.doc)
           /\ Range(DocAgents(file.doc)) \subseteq Range(DocAgents(file'.doc)) ]_vars

(***************************************************************************)
(* C3.  A team record that a startup skipped stays in storage: after a     *)
(* startup with a credential, a script run that is neither Delete Team nor *)
(* Clear All Data, and whose save_data() succeeds, leaves in the persisted *)
(* document, fields unchanged, every stored team record of which fewer     *)
(* than two member names resolved to activated agents.                     *)
(***************************************************************************)
LiveAgentNames == {agents[i].name : i \in 1..Len(agents)}
ResolvedNames(t) == Range(t.members) \cap LiveAgentNames

\* C3: a save after the startup keeps every stored team record the startup skipped
C3_SkippedTeamsStayStored ==
    [][ ( /\ StartedOnJson /\ ValidDoc(file.doc) /\ api_key # ""
          /\ last'.op \notin {"DeleteTeam", "ClearAll", "Stop"}
          /\ last'.save = "ok" )
        => /\ file'.st = "json" /\ ValidDoc(file'.doc)
           /\ \A i \in 1..Len(DocTeams(file.doc)) :
                Cardinality(ResolvedNames(DocTeams(file.doc)[i])) < 2
                    => DocTeams(file.doc)[i] \in Range(DocTeams(file'.doc)) ]_vars

(***************************************************************************)
(* C4.  Minimum team size: after a startup on a document written by        *)
(* save_data(), a stored team record is activated if and only if at least  *)
(* two of its declared member names resolve to activated agent records.    *)
(***************************************************************************)
TeamIsLive(t)== \E m \in 1..Len(teams) : TeamFields(teams[m]) = t

\* C4: a stored team is live after startup iff at least two member names resolve
C4_TeamLiveIffTwoNamesResolve ==
    (StartedOnJson /\ ValidDoc(file.doc)) =>
        \A i \in 1..Len(DocTeams(file.doc)) :
            TeamIsLive(DocTeams(file.doc)[i])
                <=> Cardinality(ResolvedNames(DocTeams(file.doc)[i])) >= 2

(***************************************************************************)
(* C5.  Graceful degradation.  The case: the stored document holds a team  *)
(* with members [A, B], a stored agent named A and none named B (B was     *)
(* deleted after the team was saved).  The start that follows, with a      *)
(* non-empty credential, skips that team, does not raise, and activates    *)
(* every custom tool, every agent and every team whose members all name    *)
(* stored agents.                                                          *)
(***************************************************************************)
StoredNamed(d, n) == {i \in 1..Len(DocAgents(d)) : DocAgents(d)[i].name = n}
\* members [A, B] of which one names a stored agent and the other none
Orphaned(d, t) ==
    /\ Len(t.members) = 2
    /\ \E x \in 1..2 : /\ StoredNamed(d, t.members[x]) # {}
                       /\ StoredNamed(d, t.members[3 - x]) = {}
\* every member names a stored agent
AllResolve(d, t) == \A x \in 1..Len(t.members) : StoredNamed(d, t.members[x]) # {}

OthersActivated(d) ==
    /\ ~last.raised
    /\ \A i \in 1..Len(DocTeams(d)) :
        /\ Orphaned(d, DocTeams(d)[i]) => ~TeamIsLive(DocTeams(d)[i])
        /\ AllResolve(d, DocTeams(d)[i]) => TeamIsLive(DocTeams(d)[i])
    /\ MemTools = DocTools(d)
    /\ MemAgents = DocAgents(d)

HasOrphanedTeam(d) == \E i \in 1..Len(DocTeams(d)) : Orphaned(d, DocTeams(d)[i])

\* C5: the team whose member B is gone is skipped and everything else is activated
C5_OrphanedTeamSkipped ==
    (StartedOnJson /\ ValidDoc(file.doc) /\ HasOrphanedTeam(file.doc) /\ api_key # "")
        => OthersActivated(file.doc)

(***************************************************************************)
(* C6.  Tool resolution: after a startup with a non-empty credential on a  *)
(* document of well-formed records, every stored agent record is live, in  *)
(* order, and its live tool list is its declared tool names, in declared   *)
(* order, restricted to the built-in names and the names of the activated  *)
(* custom tools; nothing raised.                                           *)
(***************************************************************************)
LiveToolNames(a) == [i \in 1..Len(a.agent.tools) |-> a.agent.tools[i].name]
ActivatedToolNames ==
    Range(BuiltinNames) \cup {custom_tools[i].name : i \in 1..Len(custom_tools)}

C6_ToolResolution ==
    (StartedOnJson /\ ValidRecords(file.doc) /\ api_key # "") =>
        /\ ~last.raised
        /\ MemAgents = DocAgents(file.doc)
        /\ \A i \in 1..Len(agents) :
            LiveToolNames(agents[i]) = SelectSeqBy(agents[i].tools, ActivatedToolNames)

\* an agent declaring a name that resolves to nothing lost only that name
\* and kept the custom tool "double", next to an agent whose built-in and
\* custom tool names all resolved
C6_Witness ==
    /\ StartedOnJson /\ ValidRecords(file.doc) /\ api_key # ""
    /\ \E i \in 1..Len(agents) :
        /\ agents[i].tools = <<"ghost", "double">>
        /\ LiveToolNames(agents[i]) = <<"double">>
        /\ agents[i].agent.tools[1].cls = "DynamicTool"
    /\ \E i \in 1..Len(agents) :
        /\ agents[i].tools = <<"Calculator", "double">>
        /\ LiveToolNames(agents[i]) = agents[i].tools

(***************************************************************************)
(* C7.  Corrupt document: a startup on a JSON file that does not parse     *)
(* does not raise and leaves empty agents, teams and custom tools and the  *)
(* credential of the environment; nothing of the legacy file is applied.   *)
(***************************************************************************)
C7_CorruptDocument ==
    (last.op = "Start" /\ file.st = "corrupt") =>
        /\ ~last.raised
        /\ agents = <<>> /\ teams = <<>> /\ custom_tools = <<>>
        /\ api_key = env_key

\* a startup on a corrupt JSON file next to a legacy file that holds records
C7_Witness ==
    /\ last.op = "Start" /\ file.st = "corrupt"
    /\ legacy.st = "json" /\ ListAt(legacy.doc, "agents") # <<>>
    /\ env_key # ""

(***************************************************************************)
(* C8.  Structurally invalid document: a startup on a JSON file whose top  *)
(* level is not an object, or whose agents, teams or custom_tools is not a *)
(* list of objects, does not raise and leaves an empty workspace.          *)
(***************************************************************************)
IsListOfDicts(v) == v.j = "array" /\ \A i \in 1..Len(v.a) : IsDict(v.a[i])
WrongTypes(d) ==
    \/ ~IsDict(d)
    \/ \E k \in {"agents", "teams", "custom_tools"} :
        DictHas(d, k) /\ ~IsListOfDicts(DictGet(d, k))

\* C8: a startup on a document of wrong types does not raise and leaves nothing in memory
C8_WrongTypesAbandoned ==
    (StartedOnJson /\ WrongTypes(file.doc)) =>
        /\ ~last.raised
        /\ agents = <<>> /\ teams = <<>> /\ custom_tools = <<>>

(***************************************************************************)
(* C9.  Isolation of activation failures: a startup with a credential on a *)
(* document of record objects of which exactly one is malformed does not  *)
(* raise, and activates every well-formed custom tool, every well-formed   *)
(* agent, and every well-formed team whose members all name well-formed    *)
(* stored agents.                                                          *)
(***************************************************************************)
RecordLists(d) ==
    /\ IsDict(d)
    /\ \A k \in {"agents", "teams", "custom_tools"} :
        IsListAt(d, k) /\ IsListOfDicts(DictGet(d, k))
Malformed(d) ==
    {<<"custom_tools", i>> : i \in {x \in 1..Len(ListAt(d, "custom_tools")) :
                                       ~WellFormedTool(ListAt(d, "custom_tools")[x])}}
    \cup {<<"agents", i>> : i \in {x \in 1..Len(ListAt(d, "agents")) :
                                      ~WellFormedAgent(ListAt(d, "agents")[x])}}
    \cup {<<"teams", i>> : i \in {x \in 1..Len(ListAt(d, "teams")) :
                                     ~WellFormedTeam(ListAt(d, "teams")[x])}}
GoodTools(d) == SelectSeq(ListAt(d, "custom_tools"), WellFormedTool)
GoodAgents(d) == SelectSeq(ListAt(d, "agents"), WellFormedAgent)
GoodTeams(d) == SelectSeq(ListAt(d, "teams"), WellFormedTeam)
GoodAgentNames(d) == {StrOf(GoodAgents(d)[i], "name") : i \in 1..Len(GoodAgents(d))}

\* C9: one malformed record neither raises nor blocks the well-formed records
C9_FailuresIsolated ==
    (StartedOnJson /\ RecordLists(file.doc) /\ Cardinality(Malformed(file.doc)) = 1
        /\ api_key # "") =>
        /\ ~last.raised
        /\ \A i \in 1..Len(GoodTools(file.doc)) :
            ReadTool(GoodTools(file.doc)[i]) \in Range(MemTools)
        /\ \A i \in 1..Len(GoodAgents(file.doc)) :
            ReadAgent(GoodAgents(file.doc)[i]) \in Range(MemAgents)
        /\ \A i \in 1..Len(GoodTeams(file.doc)) :
            Range(StrListOf(GoodTeams(file.doc)[i], "members")) \subseteq GoodAgentNames(file.doc)
                => TeamIsLive(ReadTeam(GoodTeams(file.doc)[i]))

(***************************************************************************)
(* C10.  save_data() leaves memory untouched: a Save All run, whose only   *)
(* effect is save_data(), changes none of the in-memory agents, teams,     *)
(* custom tools and credential, whether the write succeeds or fails, and   *)
(* a failing write does not raise; a credential change whose save fails    *)
(* still leaves agents, teams and custom tools as they were.               *)
(***************************************************************************)
C10_SaveLeavesMemory ==
    [][ /\ last'.op = "SaveAll" =>
            /\ agents' = agents /\ teams' = teams
            /\ custom_tools' = custom_tools /\ api_key' = api_key
            /\ ~last'.raised
        /\ last'.op = "ChangeKey" =>
            /\ agents' = agents /\ teams' = teams /\ custom_tools' = custom_tools
            /\ ~last'.raised ]_vars

\* a Save All whose write failed, with agents, a team and a custom tool in
\* memory
C10_Witness ==
    /\ last.op = "SaveAll" /\ last.save = "fail"
    /\ agents # <<>> /\ teams # <<>> /\ custom_tools # <<>> /\ api_key # ""

(***************************************************************************)
(* C11.  Storage follows memory: load_data() runs only in a script run     *)
(* that finds the session not initialized and that initializes it, and a   *)
(* run of a handler that changes records or the credential and whose       *)
(* save_data() succeeds leaves on disk the serialization of the agents,    *)
(* teams, custom tools and credential that are then in memory.             *)
(***************************************************************************)
MutationOps == {"CreateAgent", "UpdateAgent", "CreateTeam", "CreateCustomTool",
                "DeleteAgent", "DeleteTeam", "DeleteCustomTool", "ClearAll",
                "ChangeKey"}

\* C11: after a mutation whose save succeeded the file is the serialized memory
C11_StorageFollowsMemory ==
    [][ /\ last'.op = "Start" => ~initialized /\ initialized'
        /\ (last'.op \in MutationOps /\ last'.save = "ok")
            => file' = JsonFile(SaveDoc(agents', teams', custom_tools', api_key')) ]_vars

\* an Update Agent saved, with a second agent, a team and a custom tool
\* in memory
C11_Witness ==
    /\ last.op = "UpdateAgent" /\ last.save = "ok"
    /\ Len(agents) >= 2 /\ teams # <<>> /\ custom_tools # <<>>

(***************************************************************************)
(* C12.  Activation order: after a startup, the tool handles of every live *)
(* agent are its declared names resolved against all the custom tools the  *)
(* startup activated, and the member handles of every live team are the    *)
(* handles of all the activated agents its members name: the custom tools  *)
(* were all there before the first agent, the agents before the first team.*)
(***************************************************************************)
C12_ActivationOrder ==
    last.op = "Start" =>
        /\ \A i \in 1..Len(agents) :
            agents[i].agent.tools = ResolveTools(custom_tools, agents[i].tools)
        /\ \A i \in 1..Len(teams) :
            teams[i].team.team = TeamAgents(agents, teams[i].members)

\* a startup after which an agent holds a custom tool's handle and a team
\* holds the handle of the agent that was activated last
C12_Witness ==
    /\ last.op = "Start" /\ ~last.raised
    /\ Len(agents) >= 3 /\ custom_tools # <<>>
    /\ \E i \in 1..Len(agents) : \E k \in 1..Len(agents[i].agent.tools) :
        agents[i].agent.tools[k] = custom_tools[Len(custom_tools)].tool_obj
    /\ \E i \in 1..Len(teams) : \E k \in 1..Len(teams[i].team.team) :
        teams[i].team.team[k] = agents[Len(agents)].agent

(***************************************************************************)
(* C13.  Name uniqueness: no create, edit or delete run takes a session    *)
(* whose agent names, team names and custom-tool names are each distinct   *)
(* to one in which two agent records, two team records or two custom-tool  *)
(* records share a name.                                                   *)
(***************************************************************************)
UniqueNames(recs) ==
    \A i, k \in 1..Len(recs) : recs[i].name = recs[k].name => i = k
AllNamesUnique(ags, tms, cts) ==
    UniqueNames(ags) /\ UniqueNames(tms) /\ UniqueNames(cts)

\* C13: the handlers keep the names within agents, teams and custom_tools distinct
C13_NamesUnique ==
    [][ (last'.op # "Start" /\ AllNamesUnique(agents, teams, custom_tools))
            => AllNamesUnique(agents', teams', custom_tools') ]_vars

(***************************************************************************)
(* C14.  Live objects are never persisted: the document a successful       *)
(* save_data() has written has the four top-level keys, and each of its    *)
(* agent, team and custom-tool objects has exactly the declared record     *)
(* keys: none has a key agent, team or tool_obj.                           *)
(***************************************************************************)
HandleKeys == {"agent", "team", "tool_obj"}
DocKeys == {"agents", "teams", "custom_tools", "api_key"}
OnlyKeys(list, keys) ==
    \A i \in 1..Len(list) :
        /\ IsDict(list[i])
        /\ KeysOf(list[i]) = keys
        /\ KeysOf(list[i]) \cap HandleKeys = {}

\* C14: a written document holds the declared record fields and no live handle
C14_NoLiveObjects ==
    last.save = "ok" =>
        /\ file.st = "json" /\ IsDict(file.doc) /\ KeysOf(file.doc) = DocKeys
        /\ IsListAt(file.doc, "agents") /\ OnlyKeys(ListAt(file.doc, "agents"), AgentKeys)
        /\ IsListAt(file.doc, "teams") /\ OnlyKeys(ListAt(file.doc, "teams"), TeamKeys)
        /\ IsListAt(file.doc, "custom_tools")
        /\ OnlyKeys(ListAt(file.doc, "custom_tools"), ToolKeys)

\* a document written while agents, a team and a custom tool, each with
\* its live object, were in memory
C14_Witness ==
    /\ last.save = "ok"
    /\ Len(agents) >= 2 /\ teams # <<>> /\ custom_tools # <<>>
    /\ Len(ListAt(file.doc, "teams")) = Len(teams)
    /\ teams[1].team.team # <<>> /\ agents[1].agent.tools # <<>>
    /\ custom_tools[1].tool_obj.cls = "DynamicTool"

(***************************************************************************)
(* C15.  Legacy format is a read-only fallback: no script run changes the  *)
(* legacy file; a save that succeeds leaves a JSON file that parses; and a *)
(* startup that finds the JSON file (parsing or not) leaves the session    *)
(* the JSON file alone determines, whatever the legacy file holds.         *)
(***************************************************************************)
C15_LegacyReadOnlyFallback ==
    [][ /\ legacy' = legacy
        /\ last'.save = "ok" => file'.st = "json"
        /\ (last'.op = "Start" /\ file.st # "absent") =>
            LET r == Startup(IF file.st = "json" THEN file.doc ELSE JNull, env_key)
            IN  /\ agents' = r.agents /\ teams' = r.teams
                /\ custom_tools' = r.custom_tools /\ api_key' = r.api_key ]_vars

\* a startup with both files on disk, holding different records
C15_Witness ==
    /\ last.op = "Start" /\ file.st = "json" /\ legacy.st = "json"
    /\ file.doc # legacy.doc /\ Len(agents) >= 2
    /\ ListAt(legacy.doc, "agents") # <<>>

(***************************************************************************)
(* C16.  Deletes do not cascade: in a session started with a credential on *)
(* a document save_data() wrote, a Delete Agent whose save succeeds leaves *)
(* the team records unchanged, in memory and in the persisted document,    *)
(* and a Delete Custom Tool whose save succeeds leaves the agent records   *)
(* unchanged, in memory and in the persisted document.                     *)
(***************************************************************************)
C16_DeletesDoNotCascade ==
    [][ (StartedOnJson /\ ValidDoc(file.doc) /\ api_key # "" /\ last'.save = "ok") =>
            /\ last'.op = "DeleteAgent" =>
                /\ MemTeams' = MemTeams
                /\ file'.st = "json" /\ DocTeams(file'.doc) = DocTeams(file.doc)
            /\ last'.op = "DeleteCustomTool" =>
                /\ MemAgents' = MemAgents
                /\ file'.st = "json" /\ DocAgents(file'.doc) = DocAgents(file.doc) ]_vars

(***************************************************************************)
(* C17.  Save is idempotent: after a Save All that succeeded, a second     *)
(* save_data() with no mutation in between writes the same document, and   *)
(* load_data() returns the same workspace after either; a Save All that    *)
(* follows a successful save of the same memory leaves the file as it is.  *)
(***************************************************************************)
C17_SaveIdempotent ==
    [][ (last'.op = "SaveAll" /\ last'.save = "ok") =>
            LET again == SaveData(agents', teams', custom_tools', api_key', "ok", file')
            IN  /\ again.ok
                /\ again.file = file'
                /\ LoadData(again.file, legacy') = LoadData(file', legacy')
                /\ file = JsonFile(SaveDoc(agents, teams, custom_tools, api_key))
                    => file' = file ]_vars

\* a Save All that succeeded on a file that was already the serialization
\* of the agents, teams and custom tools in memory
C17_Witness ==
    /\ last.op = "SaveAll" /\ last.save = "ok"
    /\ Len(agents) >= 2 /\ teams # <<>> /\ custom_tools # <<>>
    /\ file = JsonFile(SaveDoc(agents, teams, custom_tools, api_key))

(***************************************************************************)
(* C18.  Shadowing is last-registered-wins: in the live object of every    *)
(* agent a startup recreates, and of the agent a Create Agent or Update    *)
(* Agent run builds, a tool whose name a custom tool carries is the object *)
(* of the last custom tool of that name in custom_tools, also when the     *)
(* name is a built-in's; any other tool is the built-in of its name.       *)
(***************************************************************************)
Shadowed(h, cts) ==
    \A k \in 1..Len(h.tools) :
        LET n == h.tools[k].name
            S == {i \in 1..Len(cts) : cts[i].name = n}
        IN  IF S = {} THEN h.tools[k] = BuiltinTool(n)
            ELSE h.tools[k] = cts[CHOOSE i \in S : \A m \in S : m <= i].tool_obj
\* the agent built from a form holds one tool object per selected name
BuiltFrom(a, cts) ==
    /\ [k \in 1..Len(a.agent.tools) |-> a.agent.tools[k].name] = a.tools
    /\ Shadowed(a.agent, cts)

\* C18: a name carried by custom tools resolves to the last of them, built-in or not
C18_LastRegisteredWins ==
    [][ /\ last'.op = "Start" =>
            \A i \in 1..Len(agents') : Shadowed(agents'[i].agent, custom_tools')
        /\ last'.op = "CreateAgent" =>
            BuiltFrom(agents'[Len(agents')], custom_tools')
        /\ (last'.op = "UpdateAgent" /\ last'.save # "none") =>
            BuiltFrom(agents'[editing_agent[1].index + 1], custom_tools') ]_vars

\* a startup with two custom tools named double after which an agent holds
\* the object of the second, next to the built-in Calculator
C18_Witness ==
    /\ last.op = "Start" /\ Len(custom_tools) = 2
    /\ custom_tools[1].name = custom_tools[2].name
    /\ custom_tools[1].tool_obj # custom_tools[2].tool_obj
    /\ \E i \in 1..Len(agents) :
        /\ agents[i].tools = <<"Calculator", "double">>
        /\ agents[i].agent.tools = <<BuiltinTool("Calculator"), custom_tools[2].tool_obj>>

(***************************************************************************)
(* C19.  Update Agent replaces exactly the record selected with Edit: an   *)
(* Update Agent run leaves the number of agent records as it is, and       *)
(* either changes no agent record or replaces, at the position Edit        *)
(* recorded, the record Edit selected, leaving every other position's      *)
(* record as it is.                                                        *)
(***************************************************************************)
C19_UpdateReplacesSelected ==
    [][ last'.op = "UpdateAgent" =>
            LET idx == editing_agent[1].index
                X == editing_agent[1].rec
            IN  /\ Len(agents') = Len(agents)
                /\ \/ agents' = agents
                   \/ /\ idx < Len(agents)
                      /\ agents[idx + 1] = X
                      /\ \A k \in 1..Len(agents) : k # idx + 1 => agents'[k] = agents[k] ]_vars

(***************************************************************************)
(* C20.  Live teams track live agents: in every state of a session, every  *)
(* member object a live team holds is the live object of an agent record   *)
(* now in memory whose name the team's members list carries; no team runs  *)
(* an object that belongs to no current agent record.                      *)
(***************************************************************************)
C20_TeamsTrackAgents ==
    initialized =>
        \A i \in 1..Len(teams) : \A k \in 1..Len(teams[i].team.team) :
            \E a \in 1..Len(agents) :
                /\ agents[a].agent = teams[i].team.team[k]
                /\ agents[a].name \in Range(teams[i].members)

(***************************************************************************)
(* C21.  Rejected creations change nothing: a Create/Update Agent, Create  *)
(* Team or Create Custom Tool run that takes an error branch does not call *)
(* save_data() and leaves agents, teams, custom tools, credential and the  *)
(* persisted document as they were; and every run that does create or      *)
(* update a record had a credential and a non-empty agent name, a          *)
(* non-empty team name and two or more selected agents, or a non-empty     *)
(* tool name, description and function code.                               *)
(***************************************************************************)
RejectOps == {"RejectAgent", "RejectTeam", "RejectCustomTool"}

\* C21: an error branch saves and changes nothing, and no creation passes the checks unfilled
C21_RejectedCreationsChangeNothing ==
    [][ /\ last'.op \in RejectOps =>
            /\ last'.save = "none" /\ ~last'.raised
            /\ agents' = agents /\ teams' = teams /\ custom_tools' = custom_tools
            /\ api_key' = api_key /\ file' = file /\ legacy' = legacy
        /\ last'.op = "CreateAgent" =>
            api_key # "" /\ agents'[Len(agents')].name # ""
        /\ (last'.op = "UpdateAgent" /\ last'.save # "none") =>
            api_key # "" /\ agents'[editing_agent[1].index + 1].name # ""
        /\ last'.op = "CreateTeam" =>
            /\ teams'[Len(teams')].name # ""
            /\ Len(teams'[Len(teams')].members) >= 2
        /\ last'.op = "CreateCustomTool" =>
            /\ custom_tools'[Len(custom_tools')].name # ""
            /\ custom_tools'[Len(custom_tools')].description # ""
            /\ custom_tools'[Len(custom_tools')].function_code # "" ]_vars

\* an Update Agent that was rejected while agents, a team and a custom
\* tool were in memory and on disk
C21_Witness ==
    /\ last.op = "RejectAgent" /\ editing_agent # NoEdit
    /\ agents # <<>> /\ teams # <<>> /\ custom_tools # <<>>
    /\ file.st = "json"

====
